---- MODULE Spec2Model ----
(***************************************************************************)
(* Complaint-intake service: the relational store (five tables), the seed  *)
(* scripts and the request handlers of complaints/routes.py.               *)
(*                                                                         *)
(* A table is the sequence of its rows in insertion order.  A primary key  *)
(* is a pair <<table, n>>: the n-th key uuid.uuid4 produced for the table. *)
(* An optional value (Python None or a value) is a sequence of length 0 or *)
(* 1.  A string whose characters matter is a sequence of one-character     *)
(* strings.                                                                *)
(***************************************************************************)
EXTENDS Integers, Sequences, FiniteSets, TLC

VARIABLES
    categories,     \* table complaint_categories
    complainants,   \* table complainants
    patients,       \* table patients
    cases,          \* table cases
    complaints,     \* table complaints
    clock,          \* number of committed transactions (value of func.now())
    request,        \* the last call and its arguments
    response,       \* the outcome of the last call
    calls,          \* the calls the handler made on the session get_db gave it
    inflight,       \* concurrent requests: where each one is, the session it holds
    sessions,       \* the sessions AsyncSessionLocal has made: "open" or "closed"
    log             \* the messages logged for the request passing the middleware

tables == <<categories, complainants, patients, cases, complaints>>
lifecycle == <<inflight, sessions, log>>
vars == <<categories, complainants, patients, cases, complaints,
          clock, request, response, calls, inflight, sessions, log>>

----------------------------------------------------------------------------
(* Bounds of the model *)

MaxComplaints == 2
MaxComplainants == 1
MaxCategoryRows == 3
MaxRequests == 3

----------------------------------------------------------------------------
(* Values *)

None == <<>>
Some(v) == <<v>>

\* An identifier no row has been created with.
UnknownId == <<"unknown", 0>>

Whitespace == {" "}

\* Request descriptions: empty, whitespace-only, and with text.
Descriptions == { <<>>, <<" ">>, <<"a">> }

NameMaxLen == 255
EmailMaxLen == 255
PhoneMaxLen == 50
AddressLineMaxLen == 255
CityMaxLen == 100
PostcodeMaxLen == 20

\* Request payloads of POST /complainants/: two valid, one with an empty name.
ComplainantPayloads ==
    { [name |-> <<"A", "l">>, email |-> <<"a", "@", "X">>, phone |-> Some(<<"1">>),
       address_line1 |-> <<"1">>, address_line2 |-> Some(<<"b">>),
       city |-> <<"c">>, postcode |-> <<"p">>],
      [name |-> <<"B", "o">>, email |-> <<"b", "@", "x">>, phone |-> None,
       address_line1 |-> <<"2">>, address_line2 |-> None,
       city |-> <<"c">>, postcode |-> <<"q">>],
      [name |-> <<>>, email |-> <<"c", "@", "x">>, phone |-> None,
       address_line1 |-> <<"3">>, address_line2 |-> None,
       city |-> <<"c">>, postcode |-> <<"q">>] }

\* The seed lists, cut to their first entries.
CATEGORIES ==
    << [main_category |-> "Clinical", sub_category |-> "Diagnosis"],
       [main_category |-> "Administrative", sub_category |-> "Billing"] >>

PATIENTS ==
    << [name |-> <<"J", "o", "h", "n", " ", "S", "m", "i", "t", "h">>,
        dob |-> "1985-03-15"],
       [name |-> <<"S", "a", "r", "a", "h", " ", "J", "o", "h", "n", "s", "o", "n">>,
        dob |-> "1990-07-22"] >>

CASE_TEMPLATES == << "001", "002" >>

\* Values of datetime.now().year when the cases are seeded.
Years == {2025}

----------------------------------------------------------------------------
(* The store *)

\* session.get(Model, id): the row with that primary key, or None.
Get(table, pk, id) ==
    LET hits == {i \in 1..Len(table) : table[i][pk] = id}
    IN  IF hits = {} THEN None ELSE Some(table[CHOOSE i \in hits : TRUE])

Ids(table, pk) == {table[i][pk] : i \in 1..Len(table)}

\* Variant: the constraint is not declared, so any table passes.
UniqueMainSub_undeclared(table) == table = table

\* UniqueConstraint('main_category', 'sub_category').
UniqueMainSub(table) ==
    \A i, j \in 1..Len(table) :
        (table[i].main_category = table[j].main_category
         /\ table[i].sub_category = table[j].sub_category) => i = j

\* Column case_reference, unique=True.
UniqueCaseReference(table) ==
    \A i, j \in 1..Len(table) :
        table[i].case_reference = table[j].case_reference => i = j

Reply(status, detail, body) ==
    [status |-> status, detail |-> detail, body |-> body]

\* Variant: default=uuid.uuid4(), evaluated once when the class is defined.
uuid4_called_once(tag, table) == <<tag, 1>>

\* default=uuid.uuid4, for a row added to a table: a key no row of it has.
uuid4(tag, table) == <<tag, Len(table) + 1>>

\* server_default=func.now(): the time of the transaction being committed.
now == clock + 1

NoRequest == [op |-> "none"]
NoResponse == Reply(0, <<>>, <<>>)

\* Concurrent requests, and a request that has been received and has no
\* session yet.
Requests == 1..MaxRequests
Received == [pc |-> "received", session |-> None, outcome |-> "none"]

\* Calls are served one at a time: a call starts when none is in progress.
Idle == request = NoRequest

Init ==
    /\ categories = <<>>
    /\ complainants = <<>>
    /\ patients = <<>>
    /\ cases = <<>>
    /\ complaints = <<>>
    /\ clock = 0
    /\ request = NoRequest
    /\ response = NoResponse
    /\ calls = <<>>
    /\ inflight = [r \in Requests |-> Received]
    /\ sessions = <<>>
    /\ log = <<>>

----------------------------------------------------------------------------
(* Seed scripts.  A script works on d, the session's view of the store:    *)
(* the three seeded tables, the clock, whether an exception has been       *)
(* raised, and the value the last function returned.  The i-th row a       *)
(* script adds takes its key after the i - 1 rows added before it.         *)

SeedView ==
    [categories |-> categories, patients |-> patients, cases |-> cases,
     clock |-> clock,
     raised |-> FALSE, returned |-> <<>>]

CategoryRows(table) ==
    [i \in 1..Len(CATEGORIES) |->
        [category_id |-> uuid4("category", table \o [j \in 1..(i - 1) |-> j]),
         main_category |-> CATEGORIES[i].main_category,
         sub_category |-> CATEGORIES[i].sub_category]]

\* seed_data.seed_categories
seed_categories(d) ==
    IF d.categories # <<>> THEN d
    ELSE LET added == d.categories \o CategoryRows(d.categories)
         IN  IF UniqueMainSub(added)
             THEN [d EXCEPT !.categories = added,
                            !.clock = @ + 1]
             ELSE [d EXCEPT !.raised = TRUE]

PatientRows(table) ==
    [i \in 1..Len(PATIENTS) |->
        [patient_id |-> uuid4("patient", table \o [j \in 1..(i - 1) |-> j]),
         name |-> PATIENTS[i].name,
         dob |-> PATIENTS[i].dob]]

\* Variant: the table is seeded again whether or not it has rows, the new
\* rows replacing the old.
seed_patients_reseeding(d) ==
    LET rows == PatientRows(d.patients)
    IN  [d EXCEPT !.patients = rows,
                  !.clock = @ + 1,
                  !.returned = rows]

\* seed_data.seed_patients
seed_patients(d) ==
    IF d.patients # <<>> THEN [d EXCEPT !.returned = d.patients]
    ELSE LET rows == PatientRows(d.patients)
         IN  [d EXCEPT !.patients = rows,
                       !.clock = @ + 1,
                       !.returned = rows]

\* CASE_TEMPLATES[:2]
TemplatesUsed == SubSeq(CASE_TEMPLATES, 1, IF Len(CASE_TEMPLATES) < 2 THEN Len(CASE_TEMPLATES) ELSE 2)

CaseRows(table, pats, year) ==
    LET per == Len(TemplatesUsed)
    IN  [n \in 1..(Len(pats) * per) |->
            LET i == ((n - 1) \div per) + 1
                k == ((n - 1) % per) + 1
            IN  [case_id |-> uuid4("case", table \o [j \in 1..(n - 1) |-> j]),
                 case_reference |-> <<"CASE", year, i, TemplatesUsed[k]>>,
                 patient_id |-> pats[i].patient_id]]

\* seed_data.seed_cases
seed_cases(d, pats, year) ==
    IF d.cases # <<>> THEN d
    ELSE LET added == d.cases \o CaseRows(d.cases, pats, year)
         IN  IF UniqueCaseReference(added)
             THEN [d EXCEPT !.cases = added,
                            !.clock = @ + 1]
             ELSE [d EXCEPT !.raised = TRUE]

\* seed_data.seed_all_data
seed_all_data(d, year) ==
    LET d1 == seed_categories(d)
        d2 == IF d1.raised THEN d1 ELSE seed_patients(d1)
        pats == IF d2.returned = <<>> THEN d2.patients ELSE d2.returned
    IN  IF d2.raised THEN d2 ELSE seed_cases(d2, pats, year)

\* python -m scripts.seed_data
SeedAllData ==
    \E year \in Years :
        LET d == seed_all_data(SeedView, year)
        IN  /\ Idle
            /\ categories' = d.categories
            /\ patients' = d.patients
            /\ cases' = d.cases
            /\ clock' = d.clock
            /\ request' = [op |-> "seed_all_data"]
            /\ UNCHANGED <<calls, lifecycle>>
            /\ response' = Reply(0, IF d.raised THEN <<"raised">> ELSE <<"complete">>, <<>>)
            /\ UNCHANGED <<complainants, complaints>>

\* Variant: the table has no unique constraint, so the commit never fails.
seed_data_unconstrained(d) ==
    [d EXCEPT !.categories = @ \o CategoryRows(@),
              !.clock = @ + 1]

\* seed_categories.seed_data: no existence check, a failed commit is rolled
\* back and the exception is logged, not raised.
seed_data(d) ==
    LET added == d.categories \o CategoryRows(d.categories)
    IN  IF UniqueMainSub(added)
        THEN [d EXCEPT !.categories = added,
                       !.clock = @ + 1]
        ELSE d

\* python -m scripts.seed_categories
SeedCategoriesOnly ==
    LET d == seed_data(SeedView)
    IN  /\ Idle
        /\ categories' = d.categories
        /\ clock' = d.clock
        /\ request' = [op |-> "seed_categories"]
        /\ UNCHANGED <<calls, lifecycle>>
        /\ response' = Reply(0, IF d.categories = categories THEN <<"rolled back">> ELSE <<"complete">>, <<>>)
        /\ UNCHANGED <<complainants, patients, cases, complaints>>

----------------------------------------------------------------------------
(* Response schemas (complaints/schemas.py): the fields each one keeps.    *)

\* schemas.ComplainantSummary
ComplainantSummary(row) ==
    [complainant_id |-> row.complainant_id, name |-> row.name,
     email |-> row.email, address_line1 |-> row.address_line1,
     address_line2 |-> row.address_line2, city |-> row.city,
     postcode |-> row.postcode]

\* Variant: the summary schema is used as the response model.
ComplainantOut_summary(row) == ComplainantSummary(row)

\* schemas.Complainant
ComplainantOut(row) ==
    [complainant_id |-> row.complainant_id, name |-> row.name,
     email |-> row.email, phone |-> row.phone,
     address_line1 |-> row.address_line1,
     address_line2 |-> row.address_line2, city |-> row.city,
     postcode |-> row.postcode, created_at |-> row.created_at,
     updated_at |-> row.updated_at]

\* schemas.PatientSummary
PatientSummary(row) ==
    [patient_id |-> row.patient_id, name |-> row.name, dob |-> row.dob]

\* schemas.CaseSummary
CaseSummary(row) ==
    [case_id |-> row.case_id, case_reference |-> row.case_reference,
     patient_id |-> row.patient_id]

\* Variant: the patient attached is the case's owner as first listed, not
\* the row that was looked up.
ComplaintOut_first_patient(row, complainant, patient, case) ==
    [complaint_id |-> row.complaint_id, description |-> row.description,
     category_id |-> row.category_id, complainant_id |-> row.complainant_id,
     patient_id |-> row.patient_id, case_id |-> row.case_id,
     created_at |-> row.created_at, updated_at |-> row.updated_at,
     complainant |-> ComplainantSummary(complainant),
     patient |-> PatientSummary(patients[1]),
     case |-> CaseSummary(case)]

\* schemas.Complaint, from the row and the three attached objects
ComplaintOut(row, complainant, patient, case) ==
    [complaint_id |-> row.complaint_id, description |-> row.description,
     category_id |-> row.category_id, complainant_id |-> row.complainant_id,
     patient_id |-> row.patient_id, case_id |-> row.case_id,
     created_at |-> row.created_at, updated_at |-> row.updated_at,
     complainant |-> ComplainantSummary(complainant),
     patient |-> PatientSummary(patient),
     case |-> CaseSummary(case)]

\* schemas.ComplainantBase: the Field(min_length, max_length) constraints
ValidComplainant(p) ==
    /\ Len(p.name) >= 1 /\ Len(p.name) <= NameMaxLen
    /\ Len(p.email) >= 1 /\ Len(p.email) <= EmailMaxLen
    /\ (p.phone # None => Len(p.phone[1]) <= PhoneMaxLen)
    /\ Len(p.address_line1) >= 1 /\ Len(p.address_line1) <= AddressLineMaxLen
    /\ (p.address_line2 # None => Len(p.address_line2[1]) <= AddressLineMaxLen)
    /\ Len(p.city) >= 1 /\ Len(p.city) <= CityMaxLen
    /\ Len(p.postcode) >= 1 /\ Len(p.postcode) <= PostcodeMaxLen

----------------------------------------------------------------------------
(* Request handlers (complaints/routes.py) *)

\* Identifiers a client sends for a table: the keys of its first and last
\* rows, or of its last row only, and one that resolves to nothing.
RequestIds(table, pk) ==
    {table[i][pk] : i \in {1, Len(table)} \cap (1..Len(table))} \cup {UnknownId}

LastOrUnknown(table, pk) ==
    {table[i][pk] : i \in {Len(table)} \cap (1..Len(table))} \cup {UnknownId}

\* The grouping loop of get_complaint_categories: grouped is the dict, kept
\* as the sequence of its (key, list) entries in insertion order.
RECURSIVE GroupFrom(_, _, _)
GroupFrom(rows, i, grouped) ==
    IF i > Len(rows) THEN grouped
    ELSE LET category == rows[i]
             known == \E k \in 1..Len(grouped) :
                         grouped[k].main_category = category.main_category
             opened == IF known THEN grouped
                       ELSE Append(grouped, [main_category |-> category.main_category,
                                             sub_categories |-> <<>>])
             sub_cat == [id |-> category.category_id, name |-> category.sub_category]
             appended == [k \in 1..Len(opened) |->
                            IF opened[k].main_category = category.main_category
                            THEN [opened[k] EXCEPT !.sub_categories = Append(@, sub_cat)]
                            ELSE opened[k]]
         IN  GroupFrom(rows, i + 1, appended)

\* Variant: the rows are visited last to first.
GroupCategories_reversed(rows) ==
    GroupFrom([i \in 1..Len(rows) |-> rows[Len(rows) + 1 - i]], 1, <<>>)

GroupCategories(rows) == GroupFrom(rows, 1, <<>>)

\* GET /complaint-categories/
GetComplaintCategories ==
    /\ Idle
    /\ request' = [op |-> "get_complaint_categories"]
    /\ calls' = <<"execute">>
    /\ UNCHANGED lifecycle
    /\ response' = Reply(200, <<>>, GroupCategories(categories))
    /\ UNCHANGED <<tables, clock>>

\* POST /complainants/
CreateComplainant ==
    \E payload \in ComplainantPayloads :
        /\ Idle
        /\ request' = [op |-> "create_complainant", payload |-> payload]
        /\ UNCHANGED lifecycle
        /\ IF ~ValidComplainant(payload)
           THEN /\ response' = Reply(422, <<"validation error">>, <<>>)
                /\ calls' = <<>>
                /\ UNCHANGED <<tables, clock>>
           ELSE /\ Len(complainants) < MaxComplainants
                /\ LET new_complainant ==
                        [complainant_id |-> uuid4("complainant", complainants),
                         name |-> payload.name, email |-> payload.email,
                         phone |-> payload.phone,
                         address_line1 |-> payload.address_line1,
                         address_line2 |-> payload.address_line2,
                         city |-> payload.city, postcode |-> payload.postcode,
                         created_at |-> now, updated_at |-> now]
                   IN  /\ complainants' = Append(complainants, new_complainant)
                       /\ response' = Reply(201, <<>>, <<ComplainantOut(new_complainant)>>)
                /\ calls' = <<"add", "commit", "refresh">>
                /\ clock' = clock + 1
                /\ UNCHANGED <<categories, patients, cases, complaints>>

\* Variant: a missing complainant is not detected and fails to serialise.
GetComplainant_unchecked ==
    \E complainant_id \in RequestIds(complainants, "complainant_id") :
        LET complainant == Get(complainants, "complainant_id", complainant_id)
        IN  /\ Idle
            /\ request' = [op |-> "get_complainant", complainant_id |-> complainant_id]
            /\ calls' = <<"get">>
            /\ UNCHANGED lifecycle
            /\ response' = IF complainant = None
                           THEN Reply(500, <<"Internal Server Error">>, <<>>)
                           ELSE Reply(200, <<>>, <<ComplainantOut(complainant[1])>>)
            /\ UNCHANGED <<tables, clock>>

\* GET /complainants/{complainant_id}
GetComplainant ==
    \E complainant_id \in RequestIds(complainants, "complainant_id") :
        LET complainant == Get(complainants, "complainant_id", complainant_id)
        IN  /\ Idle
            /\ request' = [op |-> "get_complainant", complainant_id |-> complainant_id]
            /\ calls' = <<"get">>
            /\ UNCHANGED lifecycle
            /\ response' = IF complainant = None
                           THEN Reply(404, <<"Complainant not found">>, <<>>)
                           ELSE Reply(200, <<>>, <<ComplainantOut(complainant[1])>>)
            /\ UNCHANGED <<tables, clock>>

\* Variant: the patient comparison is inverted.
CaseInvalid_inverted(case, complaint) ==
    case = None \/ case[1].patient_id = complaint.patient_id

\* Variant: only an absent case is rejected.
CaseInvalid_absent_only(case, complaint) == case = None

\* "not case or case.patient_id != complaint.patient_id"
CaseInvalid(case, complaint) ==
    case = None \/ case[1].patient_id # complaint.patient_id

\* Variant: the description is stripped before the test.
DescriptionEmpty_stripped(description) ==
    \A i \in 1..Len(description) : description[i] \in Whitespace

\* "not complaint.description"
DescriptionEmpty(description) == Len(description) = 0

Rejected(message) == Some(Reply(400, message, <<>>))

\* Variant: the category is not looked up.
validate_no_category(complaint, category, complainant, patient, case) ==
    IF complainant = None
    THEN Rejected(<<"Invalid complainant_id: ", complaint.complainant_id>>)
    ELSE IF patient = None
    THEN Rejected(<<"Invalid patient_id: ", complaint.patient_id>>)
    ELSE IF case = None \/ case[1].patient_id # complaint.patient_id
    THEN Rejected(<<"Invalid or mismatched case_id: ", complaint.case_id>>)
    ELSE IF Len(complaint.description) = 0
    THEN Rejected(<<"Description cannot be empty">>)
    ELSE None

\* Variant: the patient is validated before the category.
validate_patient_first(complaint, category, complainant, patient, case) ==
    IF patient = None
    THEN Rejected(<<"Invalid patient_id: ", complaint.patient_id>>)
    ELSE IF category = None
    THEN Rejected(<<"Invalid category_id: ", complaint.category_id>>)
    ELSE IF complainant = None
    THEN Rejected(<<"Invalid complainant_id: ", complaint.complainant_id>>)
    ELSE IF case = None \/ case[1].patient_id # complaint.patient_id
    THEN Rejected(<<"Invalid or mismatched case_id: ", complaint.case_id>>)
    ELSE IF Len(complaint.description) = 0
    THEN Rejected(<<"Description cannot be empty">>)
    ELSE None

\* The validation sequence of create_complaint: the HTTPException raised by
\* the first failing check, or None.
validate(complaint, category, complainant, patient, case) ==
    IF category = None
    THEN Rejected(<<"Invalid category_id: ", complaint.category_id>>)
    ELSE IF complainant = None
    THEN Rejected(<<"Invalid complainant_id: ", complaint.complainant_id>>)
    ELSE IF patient = None
    THEN Rejected(<<"Invalid patient_id: ", complaint.patient_id>>)
    ELSE IF CaseInvalid(case, complaint)
    THEN Rejected(<<"Invalid or mismatched case_id: ", complaint.case_id>>)
    ELSE IF DescriptionEmpty(complaint.description)
    THEN Rejected(<<"Description cannot be empty">>)
    ELSE None

\* Variant: the four references are all looked up before any is checked.
lookups_all(category, complainant, patient) == <<"get", "get", "get", "get">>

\* The db.get calls of create_complaint: one per reference, up to the first
\* that resolves to nothing.
lookups(category, complainant, patient) ==
    IF category = None THEN <<"get">>
    ELSE IF complainant = None THEN <<"get", "get">>
    ELSE IF patient = None THEN <<"get", "get", "get">>
    ELSE <<"get", "get", "get", "get">>

\* Variant: the row is added and committed before the description is
\* checked.
create_complaint_add_first(complaint) ==
    LET category == Get(categories, "category_id", complaint.category_id)
        complainant == Get(complainants, "complainant_id", complaint.complainant_id)
        patient == Get(patients, "patient_id", complaint.patient_id)
        case == Get(cases, "case_id", complaint.case_id)
        raised == validate(complaint, category, complainant, patient, case)
        new_complaint ==
            [complaint_id |-> uuid4("complaint", complaints),
             description |-> complaint.description,
             category_id |-> complaint.category_id,
             complainant_id |-> complaint.complainant_id,
             patient_id |-> complaint.patient_id,
             case_id |-> complaint.case_id,
             created_at |-> now, updated_at |-> now]
    IN  IF raised # None
        THEN [reply |-> raised[1],
              row |-> IF raised[1].detail = <<"Description cannot be empty">>
                      THEN Some(new_complaint) ELSE None,
              calls |-> IF raised[1].detail = <<"Description cannot be empty">>
                        THEN lookups(category, complainant, patient) \o <<"add", "commit">>
                        ELSE lookups(category, complainant, patient)]
        ELSE [reply |-> Reply(201, <<>>,
                              <<ComplaintOut(new_complaint, complainant[1], patient[1], case[1])>>),
              row |-> Some(new_complaint),
              calls |-> lookups(category, complainant, patient)
                            \o <<"add", "commit", "refresh">>]

\* The outcome of create_complaint for a request: the response and the row
\* inserted (None when the request is rejected).
create_complaint(complaint) ==
    LET category == Get(categories, "category_id", complaint.category_id)
        complainant == Get(complainants, "complainant_id", complaint.complainant_id)
        patient == Get(patients, "patient_id", complaint.patient_id)
        case == Get(cases, "case_id", complaint.case_id)
        raised == validate(complaint, category, complainant, patient, case)
        new_complaint ==
            [complaint_id |-> uuid4("complaint", complaints),
             description |-> complaint.description,
             category_id |-> complaint.category_id,
             complainant_id |-> complaint.complainant_id,
             patient_id |-> complaint.patient_id,
             case_id |-> complaint.case_id,
             created_at |-> now, updated_at |-> now]
    IN  IF raised # None
        THEN [reply |-> raised[1], row |-> None,
              calls |-> lookups(category, complainant, patient)]
        ELSE [reply |-> Reply(201, <<>>,
                              <<ComplaintOut(new_complaint, complainant[1], patient[1], case[1])>>),
              row |-> Some(new_complaint),
              calls |-> lookups(category, complainant, patient)
                            \o <<"add", "commit", "refresh">>]

ComplaintRequests ==
    [description : Descriptions,
     category_id : LastOrUnknown(categories, "category_id"),
     complainant_id : RequestIds(complainants, "complainant_id"),
     patient_id : LastOrUnknown(patients, "patient_id"),
     case_id : RequestIds(cases, "case_id")]

\* POST /complaints/
CreateComplaint ==
    \E complaint \in ComplaintRequests :
        LET out == create_complaint(complaint)
        IN  /\ Idle
            /\ request' = [op |-> "create_complaint", complaint |-> complaint]
            /\ calls' = out.calls
            /\ UNCHANGED lifecycle
            /\ response' = out.reply
            /\ IF out.row = None
               THEN UNCHANGED <<tables, clock>>
               ELSE /\ Len(complaints) < MaxComplaints
                    /\ complaints' = Append(complaints, out.row[1])
                    /\ clock' = clock + 1
                    /\ UNCHANGED <<categories, complainants, patients, cases>>

----------------------------------------------------------------------------
(* The list handlers and their filters *)

UpperCase == <<"A", "B", "C", "D", "E", "F", "G", "H", "I", "J", "K", "L", "M",
               "N", "O", "P", "Q", "R", "S", "T", "U", "V", "W", "X", "Y", "Z">>
LowerCase == <<"a", "b", "c", "d", "e", "f", "g", "h", "i", "j", "k", "l", "m",
               "n", "o", "p", "q", "r", "s", "t", "u", "v", "w", "x", "y", "z">>

\* The case folding of ILIKE, for one character.
Lower(c) ==
    IF \E i \in 1..Len(UpperCase) : UpperCase[i] = c
    THEN LowerCase[CHOOSE i \in 1..Len(UpperCase) : UpperCase[i] = c]
    ELSE c

\* SQL LIKE, case folded: does s from position i on match the pattern from
\* position j on?  "%" stands for any run of characters, "_" for any one.
RECURSIVE Like(_, _, _, _)
Like(s, i, pattern, j) ==
    IF j > Len(pattern) THEN i > Len(s)
    ELSE IF pattern[j] = "%"
    THEN Like(s, i, pattern, j + 1) \/ (i <= Len(s) /\ Like(s, i + 1, pattern, j))
    ELSE /\ i <= Len(s)
         /\ pattern[j] = "_" \/ Lower(pattern[j]) = Lower(s[i])
         /\ Like(s, i + 1, pattern, j + 1)

\* column.ilike(pattern)
ilike(column, pattern) == Like(column, 1, pattern, 1)

\* f"%{q}%"
Pattern(q) == <<"%">> \o q \o <<"%">>

\* "if q:" is false of None and of the empty string.
Truthy(q) == q # None /\ q[1] # <<>>

\* Values of the query parameter q of GET /complainants/: absent, empty,
\* part of a name in the other case, part of an email, of neither, and the
\* characters LIKE gives a meaning to.
ComplainantQueries ==
    { None, Some(<<>>), Some(<<"A", "L">>), Some(<<"@", "x">>), Some(<<"z">>),
      Some(<<"_">>), Some(<<"%">>) }

\* result.scalars().all(): the rows of a table a statement selects, kept
\* being their positions, in the order of the table.
RECURSIVE ScalarsFrom(_, _, _)
ScalarsFrom(rows, kept, i) ==
    IF i > Len(rows) THEN <<>>
    ELSE (IF i \in kept THEN <<rows[i]>> ELSE <<>>) \o ScalarsFrom(rows, kept, i + 1)

Scalars(rows, kept) == ScalarsFrom(rows, kept, 1)

\* The rows list_complainants selects for q.
complainants_matching(q) ==
    LET rows == Scalars(complainants,
                        {i \in 1..Len(complainants) :
                            Truthy(q) => \/ ilike(complainants[i].name, Pattern(q[1]))
                                         \/ ilike(complainants[i].email, Pattern(q[1]))})
    IN  [i \in 1..Len(rows) |-> ComplainantSummary(rows[i])]

\* GET /complainants/
ListComplainants ==
    \E q \in ComplainantQueries :
        /\ Idle
        /\ request' = [op |-> "list_complainants", q |-> q]
        /\ response' = Reply(200, <<>>, complainants_matching(q))
        /\ calls' = <<"execute">>
        /\ UNCHANGED <<tables, clock, lifecycle>>

\* Variant: the case attached is the first case of the table, not the one
\* the complaint refers to.
get_complaint_first_case(complaint_id) ==
    LET complaint == Get(complaints, "complaint_id", complaint_id)
    IN  IF complaint = None
        THEN [reply |-> Reply(404, <<"Complaint not found">>, <<>>),
              calls |-> <<"get">>]
        ELSE LET complainant == Get(complainants, "complainant_id", complaint[1].complainant_id)
                 patient == Get(patients, "patient_id", complaint[1].patient_id)
             IN  [reply |-> Reply(200, <<>>,
                                  <<ComplaintOut(complaint[1], complainant[1],
                                                 patient[1], cases[1])>>),
                  calls |-> <<"get", "get", "get", "get">>]

\* The outcome of get_complaint for an identifier: the response and the
\* calls made.
get_complaint(complaint_id) ==
    LET complaint == Get(complaints, "complaint_id", complaint_id)
    IN  IF complaint = None
        THEN [reply |-> Reply(404, <<"Complaint not found">>, <<>>),
              calls |-> <<"get">>]
        ELSE LET complainant == Get(complainants, "complainant_id", complaint[1].complainant_id)
                 patient == Get(patients, "patient_id", complaint[1].patient_id)
                 case == Get(cases, "case_id", complaint[1].case_id)
             IN  [reply |-> Reply(200, <<>>,
                                  <<ComplaintOut(complaint[1], complainant[1],
                                                 patient[1], case[1])>>),
                  calls |-> <<"get", "get", "get", "get">>]

\* Variant: the handler commits after attaching the related objects, and the
\* update stamps the row's updated_at.
GetComplaint_committing ==
    \E complaint_id \in RequestIds(complaints, "complaint_id") :
        LET out == get_complaint(complaint_id)
        IN  /\ Idle
            /\ request' = [op |-> "get_complaint", complaint_id |-> complaint_id]
            /\ response' = out.reply
            /\ calls' = out.calls \o <<"commit">>
            /\ complaints' = [i \in 1..Len(complaints) |->
                                IF complaints[i].complaint_id = complaint_id
                                THEN [complaints[i] EXCEPT !.updated_at = now]
                                ELSE complaints[i]]
            /\ clock' = clock + 1
            /\ UNCHANGED <<categories, complainants, patients, cases, lifecycle>>

\* GET /complaints/{complaint_id}
GetComplaint ==
    \E complaint_id \in RequestIds(complaints, "complaint_id") :
        LET out == get_complaint(complaint_id)
        IN  /\ Idle
            /\ request' = [op |-> "get_complaint", complaint_id |-> complaint_id]
            /\ response' = out.reply
            /\ calls' = out.calls
            /\ UNCHANGED <<tables, clock, lifecycle>>

\* Values of the query parameter q of GET /patients: absent, empty, part of
\* both seeded names in the other case, part of one, of none, and a
\* character LIKE gives a meaning to.
PatientQueries ==
    { None, Some(<<>>), Some(<<"j", "O", "H", "N">>), Some(<<"S", "M">>),
      Some(<<"z">>), Some(<<"_">>) }

\* The rows list_patients selects for q.
patients_matching(q) ==
    LET rows == Scalars(patients,
                        {i \in 1..Len(patients) :
                            Truthy(q) => ilike(patients[i].name, Pattern(q[1]))})
    IN  [i \in 1..Len(rows) |-> PatientSummary(rows[i])]

\* GET /patients
ListPatients ==
    \E q \in PatientQueries :
        /\ Idle
        /\ request' = [op |-> "list_patients", q |-> q]
        /\ response' = Reply(200, <<>>, patients_matching(q))
        /\ calls' = <<"execute">>
        /\ UNCHANGED <<tables, clock, lifecycle>>

\* str(uuid): the text of an identifier, and the identifier a text stands
\* for when the store compares it with a UUID column.
Str(id) == <<"str">> \o id
Uuid(text) == Tail(text)

\* Values of the query parameter patient_id of GET /cases: absent, empty,
\* the text of a patient's identifier and of one no patient has.
CaseFilters ==
    {None, Some(<<>>)} \cup {Some(Str(id)) : id \in RequestIds(patients, "patient_id")}

\* The dict list_cases returns for a case.
CaseDict(c) ==
    [case_id |-> Str(c.case_id), case_reference |-> c.case_reference,
     patient_id |-> Str(c.patient_id)]

\* Variant: the filter is not applied.
cases_matching_unfiltered(patient_id) ==
    [i \in 1..Len(cases) |-> CaseDict(cases[i])]

\* The rows list_cases selects for patient_id.
cases_matching(patient_id) ==
    LET rows == Scalars(cases,
                        {i \in 1..Len(cases) :
                            Truthy(patient_id) =>
                                cases[i].patient_id = Uuid(patient_id[1])})
    IN  [i \in 1..Len(rows) |-> CaseDict(rows[i])]

\* GET /cases
ListCases ==
    \E patient_id \in CaseFilters :
        /\ Idle
        /\ request' = [op |-> "list_cases", patient_id |-> patient_id]
        /\ response' = Reply(200, <<>>, cases_matching(patient_id))
        /\ calls' = <<"execute">>
        /\ UNCHANGED <<tables, clock, lifecycle>>

\* The body list_patients_test returns when the query succeeds.
patients_test ==
    [count |-> Len(patients),
     patients |-> [i \in 1..Len(patients) |->
                      [patient_id |-> Str(patients[i].patient_id),
                       name |-> patients[i].name]]]

\* GET /patients-test
ListPatientsTest ==
    /\ Idle
    /\ request' = [op |-> "list_patients_test"]
    /\ response' = Reply(200, <<>>, <<patients_test>>)
    /\ calls' = <<"execute">>
    /\ UNCHANGED <<tables, clock, lifecycle>>

----------------------------------------------------------------------------

\* The response has been delivered and the call is over.
Respond ==
    /\ ~Idle
    /\ request' = NoRequest
    /\ response' = NoResponse
    /\ calls' = <<>>
    /\ UNCHANGED lifecycle
    /\ UNCHANGED <<tables, clock>>

Next ==
    \/ Respond
    \/ SeedAllData
    \/ SeedCategoriesOnly
    \/ GetComplaintCategories
    \/ CreateComplainant
    \/ GetComplainant
    \/ CreateComplaint
    \/ ListComplainants
    \/ GetComplaint
    \/ ListPatients
    \/ ListCases
    \/ ListPatientsTest

Spec == Init /\ [][Next]_vars

----------------------------------------------------------------------------
(* The session of a request (db/database.py).  get_db is a generator: it   *)
(* makes a session, yields it to the handler, and leaves the "async with"  *)
(* block when the handler has returned or raised.  Requests run            *)
(* concurrently; sessions[i] is the state of the i-th session made.        *)

\* Variant: the session is closed after the yield without a context manager,
\* so only when the handler returned.
aexit_on_return(state, outcome) ==
    IF outcome = "returned" THEN "closed" ELSE state

\* "async with ... as session": leaving the block closes the session,
\* whether the block ended normally or by an exception.
aexit(state, outcome) == "closed"

\* get_db up to its yield: AsyncSessionLocal() makes a new session and the
\* handler of request r is given it.
get_db_enter(r) ==
    /\ inflight[r].pc = "received"
    /\ sessions' = Append(sessions, "open")
    /\ inflight' = [inflight EXCEPT ![r].pc = "handling",
                                    ![r].session = Some(Len(sessions) + 1)]
    /\ UNCHANGED <<tables, clock, request, response, calls, log>>

\* The handler of request r returns its result.
HandlerReturns(r) ==
    /\ inflight[r].pc = "handling"
    /\ inflight' = [inflight EXCEPT ![r].pc = "finished", ![r].outcome = "returned"]
    /\ UNCHANGED <<tables, clock, request, response, calls, sessions, log>>

\* The handler of request r raises (an HTTPException or any other).
HandlerRaises(r) ==
    /\ inflight[r].pc = "handling"
    /\ inflight' = [inflight EXCEPT ![r].pc = "finished", ![r].outcome = "raised"]
    /\ UNCHANGED <<tables, clock, request, response, calls, sessions, log>>

\* get_db after its yield: the request is over and the block is left.
get_db_exit(r) ==
    /\ inflight[r].pc = "finished"
    /\ sessions' = [sessions EXCEPT ![inflight[r].session[1]] =
                        aexit(@, inflight[r].outcome)]
    /\ inflight' = [inflight EXCEPT ![r].pc = "completed"]
    /\ UNCHANGED <<tables, clock, request, response, calls, log>>

NextSessions ==
    \E r \in Requests :
        \/ get_db_enter(r)
        \/ HandlerReturns(r)
        \/ HandlerRaises(r)
        \/ get_db_exit(r)

\* The framework resumes get_db once the handler of a request is done.
SpecSessions ==
    /\ Init /\ [][NextSessions]_vars
    /\ \A r \in Requests : WF_vars(get_db_exit(r))

----------------------------------------------------------------------------
(* Application exceptions (exceptions/base.py) and their handler (main.py). *)
(* A dict is the set of its <<key, value>> pairs; a message built by an     *)
(* f-string is the sequence of its parts.                                   *)

\* dict[key] = value
Put(dict, key, value) == {p \in dict : p[1] # key} \cup {<<key, value>>}

\* ApplicationException.__init__, for an instance of class cls
ApplicationException(cls, message, error_code, details, status_code) ==
    [class |-> cls,
     message |-> message,
     error_code |-> IF error_code = None \/ error_code = Some("") THEN cls
                    ELSE error_code[1],
     details |-> IF details = None THEN {} ELSE details[1],
     status_code |-> status_code]

\* ValidationError.__init__
ValidationError(message, field, error_code, details) ==
    LET exc == ApplicationException("ValidationError", message, error_code, details, 400)
    IN  IF field # None /\ field # Some("")
        THEN [exc EXCEPT !.details = Put(@, "field", field[1])]
        ELSE exc

\* NotFoundError.__init__
NotFoundError(resource, identifier, error_code, details) ==
    LET message == IF identifier # None /\ identifier # Some("")
                   THEN <<resource, " not found", " (ID: ", identifier[1], ")">>
                   ELSE <<resource, " not found">>
    IN  ApplicationException("NotFoundError", message, error_code, details, 404)

\* BusinessLogicError.__init__
BusinessLogicError(message, error_code, details) ==
    ApplicationException("BusinessLogicError", message, error_code, details, 422)

\* Variant: every application exception is answered with status 500.
application_exception_handler_500(exc) ==
    Reply(500, <<>>,
          <<[success |-> FALSE, error |-> exc.error_code,
             message |-> exc.message, details |-> exc.details]>>)

\* main.application_exception_handler
application_exception_handler(exc) ==
    Reply(exc.status_code, <<>>,
          <<[success |-> FALSE, error |-> exc.error_code,
             message |-> exc.message, details |-> exc.details]>>)

\* Arguments the constructors are called with.
Messages == { <<"boom">>, <<"bad input">> }
ErrorCodes == { None, Some(""), Some("RESOURCE_NOT_FOUND") }
DetailsArgs == { None, Some({}), Some({<<"hint", "x">>}) }
StatusCodes == { 500, 503 }
Fields == { None, Some("email") }
Resources == { "User", "Test Resource" }
Identifiers == { None, Some(""), Some("123") }

ConstructorCalls ==
    [class : {"ApplicationException"}, message : Messages,
     error_code : ErrorCodes, details : DetailsArgs, status_code : StatusCodes]
    \cup [class : {"ValidationError"}, message : Messages, field : Fields,
          error_code : ErrorCodes, details : DetailsArgs]
    \cup [class : {"NotFoundError"}, resource : Resources, identifier : Identifiers,
          error_code : ErrorCodes, details : DetailsArgs]
    \cup [class : {"BusinessLogicError"}, message : Messages,
          error_code : ErrorCodes, details : DetailsArgs]

\* The exception a constructor call makes.
Construct(call) ==
    CASE call.class = "ApplicationException" ->
            ApplicationException("ApplicationException", call.message,
                                 call.error_code, call.details, call.status_code)
      [] call.class = "ValidationError" ->
            ValidationError(call.message, call.field, call.error_code, call.details)
      [] call.class = "NotFoundError" ->
            NotFoundError(call.resource, call.identifier, call.error_code, call.details)
      [] call.class = "BusinessLogicError" ->
            BusinessLogicError(call.message, call.error_code, call.details)

\* An endpoint raises an application exception and the handler answers.
EndpointRaises ==
    \E call \in ConstructorCalls :
        /\ Idle
        /\ request' = [op |-> "raise", call |-> call, exc |-> Construct(call)]
        /\ response' = application_exception_handler(Construct(call))
        /\ calls' = <<>>
        /\ UNCHANGED <<tables, clock, lifecycle>>

\* GET /error-test
ErrorTest ==
    LET call == [class |-> "NotFoundError", resource |-> "Test Resource",
                 identifier |-> Some("123"), error_code |-> None, details |-> None]
    IN  /\ Idle
        /\ request' = [op |-> "error_test", call |-> call, exc |-> Construct(call)]
        /\ response' = application_exception_handler(Construct(call))
        /\ calls' = <<>>
        /\ UNCHANGED <<tables, clock, lifecycle>>

NextErrors ==
    \/ EndpointRaises
    \/ ErrorTest
    \/ Respond

SpecErrors == Init /\ [][NextErrors]_vars

----------------------------------------------------------------------------
(* Store failures: the first store call a handler awaits raises.           *)

\* The handlers, and the calls each has made when its first awaited store
\* call raises.
FirstAwaited ==
    [get_complaint_categories |-> <<"execute">>,
     create_complainant |-> <<"add", "commit">>,
     get_complainant |-> <<"get">>,
     list_complainants |-> <<"execute">>,
     create_complaint |-> <<"get">>,
     get_complaint |-> <<"get">>,
     list_patients_test |-> <<"execute">>,
     list_patients |-> <<"execute">>,
     list_cases |-> <<"execute">>]

\* str(e) of the exceptions the store raises.
StoreErrors == { "connection refused", "relation \"patients\" does not exist" }

\* logging_middleware logs the exception and raises it again; the server
\* answers an exception nothing handles with a plain 500.
ServerError == Reply(500, <<"Internal Server Error">>, <<>>)

\* What the client receives when the store call of a handler raises e: only
\* list_patients_test has an except clause, which returns the text of e.
on_store_error(op, e) ==
    IF op = "list_patients_test"
    THEN Reply(200, <<>>, <<[error |-> e]>>)
    ELSE ServerError

\* A request whose first store call fails; nothing is committed.
StoreFails ==
    \E op \in DOMAIN FirstAwaited, e \in StoreErrors :
        /\ Idle
        /\ request' = [op |-> op, store_error |-> e]
        /\ response' = on_store_error(op, e)
        /\ calls' = FirstAwaited[op]
        /\ UNCHANGED <<tables, clock, lifecycle>>

NextFaults ==
    \/ Next
    \/ StoreFails

SpecFaults == Init /\ [][NextFaults]_vars

----------------------------------------------------------------------------
(* The logging middleware (main.py).  It wraps everything beneath it: the  *)
(* endpoint and the exception handlers registered on the application, so   *)
(* an exception with a registered handler reaches it as the response that  *)
(* handler made, and any other exception reaches it as an exception.       *)
(* log holds the messages logged for the request, in the order logged.     *)

Incoming == <<"Incoming request">>
Outgoing == <<"Outgoing response">>
Failed == <<"Request failed">>

Returned(reply) == [kind |-> "response", reply |-> reply]
Raised(e) == [kind |-> "raised", exc |-> e]

\* The requests sent through the middleware: the two endpoints of main.py,
\* an endpoint raising an application exception, and a handler whose first
\* store call raises.
MiddlewareRequests ==
    { [op |-> "read_root"], [op |-> "error_test"] }
    \cup [op : {"raise"}, call : ConstructorCalls]
    \cup [op : DOMAIN FirstAwaited, store_error : StoreErrors]

\* GET /
read_root == [logged |-> << <<"Root endpoint was called.">> >>,
              outcome |-> Returned(Reply(200, <<>>, <<[Hello |-> "World"]>>))]

\* The exception handler logs the error code and returns its response.
handled(exc) ==
    [logged |-> << <<"Application exception caught: ", exc.error_code>> >>,
     outcome |-> Returned(application_exception_handler(exc))]

\* GET /error-test
test_error_handling ==
    LET h == handled(NotFoundError("Test Resource", Some("123"), None, None))
    IN  [logged |-> << <<"Testing error handling by raising a NotFoundError.">> >>
                    \o h.logged,
         outcome |-> h.outcome]

\* What the application beneath the middleware logs and hands back.
call_next(req) ==
    CASE req.op = "read_root" -> read_root
      [] req.op = "error_test" -> test_error_handling
      [] req.op = "raise" -> handled(Construct(req.call))
      [] OTHER ->
            [logged |-> <<>>,
             outcome |-> IF req.op = "list_patients_test"
                         THEN Returned(on_store_error(req.op, req.store_error))
                         ELSE Raised(req.store_error)]

\* A middleware that answers the exception itself instead of raising it again.
after_call_next_swallowing(outcome) ==
    IF outcome.kind = "response"
    THEN [logged |-> Outgoing, result |-> outcome]
    ELSE [logged |-> Failed, result |-> Returned(ServerError)]

\* The try block after call_next: a response is logged and returned; an
\* exception is logged and raised again.
after_call_next(outcome) ==
    IF outcome.kind = "response"
    THEN [logged |-> Outgoing, result |-> outcome]
    ELSE [logged |-> Failed, result |-> outcome]

\* What the client receives: the response, or the server's answer to an
\* exception that left the application.
Received_by_client(result) ==
    IF result.kind = "response" THEN result.reply ELSE ServerError

\* The middleware takes the request and logs it.
logging_middleware_enter ==
    \E req \in MiddlewareRequests :
        /\ Idle
        /\ request' = [op |-> req.op, stage |-> "incoming", req |-> req,
                       outcome |-> None, result |-> None]
        /\ log' = <<Incoming>>
        /\ UNCHANGED <<tables, clock, response, calls, inflight, sessions>>

\* await call_next(request)
logging_middleware_call_next ==
    /\ request.op # "none"
    /\ request.stage = "incoming"
    /\ LET below == call_next(request.req)
       IN  /\ request' = [request EXCEPT !.stage = "called",
                                         !.outcome = Some(below.outcome)]
           /\ log' = log \o below.logged
    /\ UNCHANGED <<tables, clock, response, calls, inflight, sessions>>

\* The middleware logs the outcome and returns or raises.
logging_middleware_exit ==
    /\ request.op # "none"
    /\ request.stage = "called"
    /\ LET after == after_call_next(request.outcome[1])
       IN  /\ request' = [request EXCEPT !.stage = "done",
                                         !.result = Some(after.result)]
           /\ log' = Append(log, after.logged)
           /\ response' = Received_by_client(after.result)
    /\ UNCHANGED <<tables, clock, calls, inflight, sessions>>

\* The response has been delivered; the next request can be taken.
Delivered ==
    /\ request.op # "none"
    /\ request.stage = "done"
    /\ Respond

NextMiddleware ==
    \/ logging_middleware_enter
    \/ logging_middleware_call_next
    \/ logging_middleware_exit
    \/ Delivered

SpecMiddleware == Init /\ [][NextMiddleware]_vars

----------------------------------------------------------------------------
(* Requests served concurrently.  The handlers are coroutines: a request   *)
(* runs until it awaits a store call, and another request may run before   *)
(* the call is answered.  A step is one store call of one request together *)
(* with the code that follows it up to the next await or the return.  The  *)
(* locals of the handler of request r and the response it returns are held *)
(* in inflight[r]; the tables are the only state the requests share.       *)

MaxConcurrent == 2
Concurrent == 1..MaxConcurrent

\* The row create_complainant inserts for a payload.
complainant_row(payload, table, at) ==
    [complainant_id |-> uuid4("complainant", table),
     name |-> payload.name, email |-> payload.email, phone |-> payload.phone,
     address_line1 |-> payload.address_line1,
     address_line2 |-> payload.address_line2,
     city |-> payload.city, postcode |-> payload.postcode,
     created_at |-> at, updated_at |-> at]

\* The row create_complaint inserts for a request.
complaint_row(complaint, table, at) ==
    [complaint_id |-> uuid4("complaint", table),
     description |-> complaint.description,
     category_id |-> complaint.category_id,
     complainant_id |-> complaint.complainant_id,
     patient_id |-> complaint.patient_id,
     case_id |-> complaint.case_id,
     created_at |-> at, updated_at |-> at]

\* The server starts on a seeded store that holds no complaint and at most
\* one complainant.
InitConcurrent ==
    \E year \in Years, registered \in BOOLEAN :
        LET empty == [categories |-> <<>>, patients |-> <<>>, cases |-> <<>>,
                      clock |-> 0, raised |-> FALSE, returned |-> <<>>]
            d == seed_all_data(empty, year)
            payload == CHOOSE p \in ComplainantPayloads : ValidComplainant(p)
        IN  /\ categories = d.categories
            /\ patients = d.patients
            /\ cases = d.cases
            /\ complainants = IF registered
                              THEN <<complainant_row(payload, <<>>, d.clock + 1)>>
                              ELSE <<>>
            /\ complaints = <<>>
            /\ clock = IF registered THEN d.clock + 1 ELSE d.clock
            /\ request = NoRequest
            /\ response = NoResponse
            /\ calls = <<>>
            /\ inflight = [r \in Requests |-> Received]
            /\ sessions = <<>>
            /\ log = <<>>

\* Requests to create a complaint for the first complainant: one whose
\* references match, and one failing each of three checks.
ConcurrentComplaints ==
    LET matching == [description |-> <<"a">>,
                     category_id |-> categories[Len(categories)].category_id,
                     complainant_id |-> <<"complainant", 1>>,
                     patient_id |-> patients[Len(patients)].patient_id,
                     case_id |-> cases[Len(cases)].case_id]
    IN  { matching,
          [matching EXCEPT !.category_id = UnknownId],
          [matching EXCEPT !.case_id = cases[1].case_id],
          [matching EXCEPT !.description = <<>>] }

ConcurrentRequests ==
    [op : {"create_complaint"}, input : ConcurrentComplaints]
    \cup [op : {"create_complainant"},
          input : {p \in ComplainantPayloads : ValidComplainant(p)}]
    \cup { [op |-> "get_complaint_categories", input |-> None],
           [op |-> "get_complainant", input |-> <<"complainant", 1>>],
           [op |-> "list_complainants", input |-> Some(<<"@", "x">>)],
           [op |-> "get_complaint", input |-> <<"complaint", 1>>],
           [op |-> "list_patients", input |-> None],
           [op |-> "list_patients_test", input |-> None],
           [op |-> "list_cases", input |-> None] }

\* The first store call each handler awaits.
first_await(op) ==
    CASE op = "create_complaint" -> "get_category"
      [] op = "create_complainant" -> "commit_complainant"
      [] OTHER -> "read"

\* Request r arrives and its handler is called with its own locals.
Arrives(r) ==
    \E req \in ConcurrentRequests :
        /\ inflight[r].pc = "received"
        /\ inflight' = [inflight EXCEPT ![r] =
                            [pc |-> first_await(req.op), session |-> None,
                             outcome |-> "none", op |-> req.op, input |-> req.input,
                             category |-> None, complainant |-> None,
                             patient |-> None, case |-> None, new |-> None,
                             reply |-> NoResponse]]
        /\ UNCHANGED <<tables, clock, request, response, calls, sessions, log>>

\* Request r raises an HTTPException or returns: its response is made.
Returns(r, reply) ==
    [inflight EXCEPT ![r].pc = "done", ![r].reply = reply,
                     ![r].outcome = IF reply.status = 400 \/ reply.status = 404
                                    THEN "raised" ELSE "returned"]

\* category = await db.get(ComplaintCategory, complaint.category_id)
db_get_category(r) ==
    LET complaint == inflight[r].input
        category == Get(categories, "category_id", complaint.category_id)
    IN  /\ inflight[r].pc = "get_category"
        /\ inflight' =
              IF category = None
              THEN Returns(r, Reply(400, <<"Invalid category_id: ",
                                           complaint.category_id>>, <<>>))
              ELSE [inflight EXCEPT ![r].pc = "get_complainant",
                                    ![r].category = category]
        /\ UNCHANGED <<tables, clock, request, response, calls, sessions, log>>

\* complainant = await db.get(Complainant, complaint.complainant_id)
db_get_complainant(r) ==
    LET complaint == inflight[r].input
        complainant == Get(complainants, "complainant_id", complaint.complainant_id)
    IN  /\ inflight[r].pc = "get_complainant"
        /\ inflight' =
              IF complainant = None
              THEN Returns(r, Reply(400, <<"Invalid complainant_id: ",
                                           complaint.complainant_id>>, <<>>))
              ELSE [inflight EXCEPT ![r].pc = "get_patient",
                                    ![r].complainant = complainant]
        /\ UNCHANGED <<tables, clock, request, response, calls, sessions, log>>

\* patient = await db.get(Patient, complaint.patient_id)
db_get_patient(r) ==
    LET complaint == inflight[r].input
        patient == Get(patients, "patient_id", complaint.patient_id)
    IN  /\ inflight[r].pc = "get_patient"
        /\ inflight' =
              IF patient = None
              THEN Returns(r, Reply(400, <<"Invalid patient_id: ",
                                           complaint.patient_id>>, <<>>))
              ELSE [inflight EXCEPT ![r].pc = "get_case", ![r].patient = patient]
        /\ UNCHANGED <<tables, clock, request, response, calls, sessions, log>>

\* case = await db.get(Case, complaint.case_id), the two checks after it,
\* and db.add(new_complaint): the new row is pending in the session of r.
db_get_case(r) ==
    LET complaint == inflight[r].input
        case == Get(cases, "case_id", complaint.case_id)
    IN  /\ inflight[r].pc = "get_case"
        /\ inflight' =
              IF CaseInvalid(case, complaint)
              THEN Returns(r, Reply(400, <<"Invalid or mismatched case_id: ",
                                           complaint.case_id>>, <<>>))
              ELSE IF DescriptionEmpty(complaint.description)
              THEN Returns(r, Reply(400, <<"Description cannot be empty">>, <<>>))
              ELSE [inflight EXCEPT ![r].pc = "commit_complaint", ![r].case = case]
        /\ UNCHANGED <<tables, clock, request, response, calls, sessions, log>>

\* Variant: a store that writes the row over the one committed last.
insert_over_last(table, row) ==
    IF table = <<>> THEN <<row>> ELSE [table EXCEPT ![Len(table)] = row]

\* The INSERT a commit flushes: the table gains the row.
insert(table, row) == Append(table, row)

\* await db.commit() of create_complaint: the pending row is inserted.
db_commit_complaint(r) ==
    LET row == complaint_row(inflight[r].input, complaints, now)
    IN  /\ inflight[r].pc = "commit_complaint"
        /\ complaints' = insert(complaints, row)
        /\ clock' = clock + 1
        /\ inflight' = [inflight EXCEPT ![r].pc = "refresh_complaint",
                                        ![r].new = Some(row)]
        /\ UNCHANGED <<categories, complainants, patients, cases,
                       request, response, calls, sessions, log>>

\* await db.refresh(new_complaint), the three attachments and the return.
db_refresh_complaint(r) ==
    LET new_complaint == Get(complaints, "complaint_id", inflight[r].new[1].complaint_id)
    IN  /\ inflight[r].pc = "refresh_complaint"
        /\ inflight' =
              IF new_complaint = None
              THEN Returns(r, ServerError)
              ELSE Returns(r, Reply(201, <<>>,
                                    <<ComplaintOut(new_complaint[1],
                                                   inflight[r].complainant[1],
                                                   inflight[r].patient[1],
                                                   inflight[r].case[1])>>))
        /\ UNCHANGED <<tables, clock, request, response, calls, sessions, log>>

\* db.add(new_complainant) and await db.commit() of create_complainant.
db_commit_complainant(r) ==
    LET row == complainant_row(inflight[r].input, complainants, now)
    IN  /\ inflight[r].pc = "commit_complainant"
        /\ complainants' = insert(complainants, row)
        /\ clock' = clock + 1
        /\ inflight' = [inflight EXCEPT ![r].pc = "refresh_complainant",
                                        ![r].new = Some(row)]
        /\ UNCHANGED <<categories, patients, cases, complaints,
                       request, response, calls, sessions, log>>

\* await db.refresh(new_complainant) and the return.
db_refresh_complainant(r) ==
    LET new_complainant == Get(complainants, "complainant_id",
                              inflight[r].new[1].complainant_id)
    IN  /\ inflight[r].pc = "refresh_complainant"
        /\ inflight' =
              IF new_complainant = None
              THEN Returns(r, ServerError)
              ELSE Returns(r, Reply(201, <<>>, <<ComplainantOut(new_complainant[1])>>))
        /\ UNCHANGED <<tables, clock, request, response, calls, sessions, log>>

\* The response of a read handler, from the rows committed when it reads.
read(op, input) ==
    CASE op = "get_complaint_categories" ->
            Reply(200, <<>>, GroupCategories(categories))
      [] op = "get_complainant" ->
            LET complainant == Get(complainants, "complainant_id", input)
            IN  IF complainant = None
                THEN Reply(404, <<"Complainant not found">>, <<>>)
                ELSE Reply(200, <<>>, <<ComplainantOut(complainant[1])>>)
      [] op = "list_complainants" -> Reply(200, <<>>, complainants_matching(input))
      [] op = "get_complaint" -> get_complaint(input).reply
      [] op = "list_patients" -> Reply(200, <<>>, patients_matching(input))
      [] op = "list_patients_test" -> Reply(200, <<>>, <<patients_test>>)
      [] op = "list_cases" -> Reply(200, <<>>, cases_matching(input))

\* The store call of a read handler and its return.
db_read(r) ==
    /\ inflight[r].pc = "read"
    /\ inflight' = Returns(r, read(inflight[r].op, inflight[r].input))
    /\ UNCHANGED <<tables, clock, request, response, calls, sessions, log>>

NextConcurrent ==
    \E r \in Concurrent :
        \/ Arrives(r)
        \/ db_get_category(r)
        \/ db_get_complainant(r)
        \/ db_get_patient(r)
        \/ db_get_case(r)
        \/ db_commit_complaint(r)
        \/ db_refresh_complaint(r)
        \/ db_commit_complainant(r)
        \/ db_refresh_complainant(r)
        \/ db_read(r)

SpecConcurrent == InitConcurrent /\ [][NextConcurrent]_vars

----------------------------------------------------------------------------
(* The category grouping on its own: the table holds any rows the unique   *)
(* constraint allows, in any order, and the handler is applied to it.      *)

MainCategories == {"Clinical", "Administrative"}
SubCategories == {"Diagnosis", "Billing"}

CategoryRowSet ==
    [category_id : {<<"category", n>> : n \in 1..MaxCategoryRows},
     main_category : MainCategories,
     sub_category : SubCategories]

InitCategories ==
    /\ \E n \in 0..MaxCategoryRows :
         \E rows \in [1..n -> CategoryRowSet] :
            /\ \A i, j \in 1..n : rows[i].category_id = rows[j].category_id => i = j
            /\ UniqueMainSub(rows)
            /\ categories = rows
    /\ complainants = <<>>
    /\ patients = <<>>
    /\ cases = <<>>
    /\ complaints = <<>>
    /\ clock = 1
    /\ request = NoRequest
    /\ response = NoResponse
    /\ calls = <<>>
    /\ inflight = [r \in Requests |-> Received]
    /\ sessions = <<>>
    /\ log = <<>>

NextCategories ==
    \/ GetComplaintCategories
    \/ Respond

SpecCategories == InitCategories /\ [][NextCategories]_vars

----------------------------------------------------------------------------
(* Properties *)

CategoryExists(id) == \E i \in 1..Len(categories) : categories[i].category_id = id
ComplainantExists(id) == \E i \in 1..Len(complainants) : complainants[i].complainant_id = id
PatientExists(id) == \E i \in 1..Len(patients) : patients[i].patient_id = id
CaseExists(id) == \E i \in 1..Len(cases) : cases[i].case_id = id

\* Some case has this id and belongs to this patient.
CaseOfPatient(case_id, patient_id) ==
    \E i \in 1..Len(cases) :
        cases[i].case_id = case_id /\ cases[i].patient_id = patient_id

AllExist(c) ==
    /\ CategoryExists(c.category_id)
    /\ ComplainantExists(c.complainant_id)
    /\ PatientExists(c.patient_id)
    /\ CaseExists(c.case_id)

InvalidReferenceMessages ==
    {"Invalid category_id: ", "Invalid complainant_id: ",
     "Invalid patient_id: ", "Invalid or mismatched case_id: "}

\* The error kinds of the handlers.
IsInvalidReference(r) == r.status = 400 /\ r.detail[1] \in InvalidReferenceMessages
IsEmptyDescription(r) == r.status = 400 /\ r.detail = <<"Description cannot be empty">>

\* A step that serves a create_complaint request.
IsCreateComplaint == request = NoRequest /\ request'.op = "create_complaint"

\* C1: every persisted complaint's case_id references an existing case whose
\* patient_id equals the complaint's patient_id.
C1_CaseBelongsToPatient ==
    \A i \in 1..Len(complaints) :
        CaseOfPatient(complaints[i].case_id, complaints[i].patient_id)

\* C1 witness: a complaint is stored, and a request naming an existing case
\* of another patient has just been rejected.
C1_Witness ==
    /\ Len(complaints) >= 1
    /\ request.op = "create_complaint"
    /\ response.status = 400
    /\ CaseExists(request.complaint.case_id)
    /\ PatientExists(request.complaint.patient_id)
    /\ ~CaseOfPatient(request.complaint.case_id, request.complaint.patient_id)

\* C2: a create_complaint request with at least one of the four ids not
\* resolving is rejected with INVALID_REFERENCE (400) and leaves the
\* complaints table as it was.
C2_UnresolvedRejected ==
    [][(IsCreateComplaint /\ ~AllExist(request'.complaint))
        => (IsInvalidReference(response') /\ complaints' = complaints)]_vars

\* C2 witness: exactly one id (the complainant's) did not resolve, and the
\* request was rejected while complaints are stored.
C2_Witness ==
    /\ request.op = "create_complaint"
    /\ CategoryExists(request.complaint.category_id)
    /\ ~ComplainantExists(request.complaint.complainant_id)
    /\ PatientExists(request.complaint.patient_id)
    /\ CaseOfPatient(request.complaint.case_id, request.complaint.patient_id)
    /\ response.status = 400
    /\ Len(complainants) >= 1

\* C3: when all four rows exist but the case belongs to another patient,
\* the request is rejected with INVALID_REFERENCE (400) and nothing is
\* persisted.
C3_MismatchRejected ==
    [][(IsCreateComplaint /\ AllExist(request'.complaint)
        /\ ~CaseOfPatient(request'.complaint.case_id, request'.complaint.patient_id))
        => (/\ IsInvalidReference(response')
            /\ response'.detail = <<"Invalid or mismatched case_id: ", request'.complaint.case_id>>
            /\ complaints' = complaints)]_vars

\* C3 witness: all four rows exist, the description is non-empty, the case
\* belongs to another patient, and the request was rejected.
C3_Witness ==
    /\ request.op = "create_complaint"
    /\ AllExist(request.complaint)
    /\ ~CaseOfPatient(request.complaint.case_id, request.complaint.patient_id)
    /\ Len(request.complaint.description) > 0
    /\ response.status = 400

\* The five checks, in the order of the specification, and their messages.
CheckFails(k, c) ==
    CASE k = 1 -> ~CategoryExists(c.category_id)
      [] k = 2 -> ~ComplainantExists(c.complainant_id)
      [] k = 3 -> ~PatientExists(c.patient_id)
      [] k = 4 -> ~CaseOfPatient(c.case_id, c.patient_id)
      [] k = 5 -> c.description = <<>>

CheckMessage(k, c) ==
    CASE k = 1 -> <<"Invalid category_id: ", c.category_id>>
      [] k = 2 -> <<"Invalid complainant_id: ", c.complainant_id>>
      [] k = 3 -> <<"Invalid patient_id: ", c.patient_id>>
      [] k = 4 -> <<"Invalid or mismatched case_id: ", c.case_id>>
      [] k = 5 -> <<"Description cannot be empty">>

\* C4: the error of create_complaint is the one of the earliest failing
\* check in the order category, complainant, patient, case, description.
C4_FirstFailingCheckWins ==
    [][IsCreateComplaint =>
        \A k \in 1..5 :
            (CheckFails(k, request'.complaint)
             /\ \A j \in 1..(k - 1) : ~CheckFails(j, request'.complaint))
            => (response'.status = 400
                /\ response'.detail = CheckMessage(k, request'.complaint))]_vars

\* C4 witness: the patient, the case and the description all fail while the
\* category and the complainant resolve; the patient's error is reported.
C4_Witness ==
    /\ request.op = "create_complaint"
    /\ CategoryExists(request.complaint.category_id)
    /\ ComplainantExists(request.complaint.complainant_id)
    /\ ~PatientExists(request.complaint.patient_id)
    /\ ~CaseExists(request.complaint.case_id)
    /\ request.complaint.description = <<>>
    /\ response.detail = <<"Invalid patient_id: ", request.complaint.patient_id>>

AllValidReferences(c) == AllExist(c) /\ CaseOfPatient(c.case_id, c.patient_id)

\* Empty, or made of whitespace only.
IsBlank(description) == \A i \in 1..Len(description) : description[i] \in Whitespace

\* C5 as stated: with four valid references, an empty or whitespace-only
\* description is rejected with EMPTY_DESCRIPTION and nothing is persisted.
C5_BlankRejected ==
    [][(IsCreateComplaint /\ AllValidReferences(request'.complaint)
        /\ IsBlank(request'.complaint.description))
        => (IsEmptyDescription(response') /\ complaints' = complaints)]_vars

\* C5 amended: with four valid references, an empty description is rejected
\* with EMPTY_DESCRIPTION (400) and nothing is persisted, while a non-empty
\* description made of whitespace only is accepted (201) and persisted.
C5_EmptyRejected ==
    [][(IsCreateComplaint /\ AllValidReferences(request'.complaint)
        /\ IsBlank(request'.complaint.description))
        => IF request'.complaint.description = <<>>
           THEN IsEmptyDescription(response') /\ complaints' = complaints
           ELSE /\ response'.status = 201
                /\ complaints' # complaints
                /\ complaints'[Len(complaints')].description = request'.complaint.description]_vars

\* C5 witness: an empty description with four valid references has been
\* rejected as empty, after a whitespace-only description was stored.
C5_Witness ==
    /\ request.op = "create_complaint"
    /\ AllValidReferences(request.complaint)
    /\ request.complaint.description = <<>>
    /\ IsEmptyDescription(response)
    /\ \E i \in 1..Len(complaints) :
          complaints[i].description # <<>> /\ IsBlank(complaints[i].description)

\* The row of a table with a given key.
RowOf(table, pk, id) == table[CHOOSE i \in 1..Len(table) : table[i][pk] = id]

\* C6: a create_complaint request with four existing references, a case of
\* the supplied patient and a non-empty description succeeds (201); the
\* returned record carries the four supplied ids and embeds the complainant,
\* patient and case rows those ids identify.
C6_ValidSucceeds ==
    [][(IsCreateComplaint /\ AllValidReferences(request'.complaint)
        /\ request'.complaint.description # <<>>)
        => LET c == request'.complaint
               out == response'.body[1]
               complainant == RowOf(complainants, "complainant_id", c.complainant_id)
               patient == RowOf(patients, "patient_id", c.patient_id)
               case == RowOf(cases, "case_id", c.case_id)
           IN  /\ response'.status = 201
               /\ Len(response'.body) = 1
               /\ out.category_id = c.category_id
               /\ out.complainant_id = c.complainant_id
               /\ out.patient_id = c.patient_id
               /\ out.case_id = c.case_id
               /\ out.description = c.description
               /\ out.complainant.complainant_id = c.complainant_id
               /\ out.complainant.name = complainant.name
               /\ out.complainant.email = complainant.email
               /\ out.complainant.address_line1 = complainant.address_line1
               /\ out.complainant.address_line2 = complainant.address_line2
               /\ out.complainant.city = complainant.city
               /\ out.complainant.postcode = complainant.postcode
               /\ out.patient.patient_id = c.patient_id
               /\ out.patient.name = patient.name
               /\ out.patient.dob = patient.dob
               /\ out.case.case_id = c.case_id
               /\ out.case.case_reference = case.case_reference
               /\ out.case.patient_id = c.patient_id]_vars

\* C6 witness: a valid request naming the last patient and one of that
\* patient's cases has succeeded.
C6_Witness ==
    /\ request.op = "create_complaint"
    /\ response.status = 201
    /\ Len(patients) >= 2
    /\ request.complaint.patient_id = patients[Len(patients)].patient_id
    /\ response.body[1].patient.name = patients[Len(patients)].name

\* C7: a successful create_complaint appends exactly one row to complaints,
\* a rejected one leaves complaints as it was, and either way the other
\* four tables and the rows already in complaints are unchanged.
C7_Frame ==
    [][IsCreateComplaint =>
        /\ UNCHANGED <<categories, complainants, patients, cases>>
        /\ IF response'.status = 201
           THEN /\ Len(complaints') = Len(complaints) + 1
                /\ SubSeq(complaints', 1, Len(complaints)) = complaints
           ELSE complaints' = complaints]_vars

\* C7 witness: a request has been rejected while a complaint is stored.
C7_Witness ==
    /\ request.op = "create_complaint"
    /\ response.status = 400
    /\ Len(complaints) >= 1
    /\ AllValidReferences(request.complaint)

\* The fields of a complaint row that come from the request.
Submitted(row) ==
    [description |-> row.description, category_id |-> row.category_id,
     complainant_id |-> row.complainant_id, patient_id |-> row.patient_id,
     case_id |-> row.case_id]

\* C8: complaint_ids are pairwise distinct, and a valid request equal to
\* one already persisted is not deduplicated: it adds a further row whose
\* complaint_id no earlier row has.
C8_DistinctIds ==
    /\ [](\A i, j \in 1..Len(complaints) :
            complaints[i].complaint_id = complaints[j].complaint_id => i = j)
    /\ [][(IsCreateComplaint /\ AllValidReferences(request'.complaint)
           /\ request'.complaint.description # <<>>)
           => /\ Len(complaints') = Len(complaints) + 1
              /\ Submitted(complaints'[Len(complaints')]) = request'.complaint
              /\ \A i \in 1..Len(complaints) :
                    complaints[i].complaint_id # complaints'[Len(complaints')].complaint_id]_vars

\* C8 witness: the same request has been persisted twice.
C8_Witness ==
    \E i, j \in 1..Len(complaints) :
        /\ i # j
        /\ Submitted(complaints[i]) = Submitted(complaints[j])
        /\ complaints[i].complaint_id # complaints[j].complaint_id

\* The positions of the rows of a main category, and the first of them.
RowsOf(rows, main) == {i \in 1..Len(rows) : rows[i].main_category = main}
FirstSeen(rows, main) == CHOOSE i \in RowsOf(rows, main) : \A j \in RowsOf(rows, main) : i <= j

\* The n-th smallest element of a set of positions.
RECURSIVE Nth(_, _)
Nth(S, n) ==
    LET least == CHOOSE i \in S : \A j \in S : i <= j
    IN  IF n = 1 THEN least ELSE Nth(S \ {least}, n - 1)

C10_GetComplainant ==
    [][(request = NoRequest /\ request'.op = "get_complainant") =>
        /\ response'.status # 500
        /\ IF ComplainantExists(request'.complainant_id)
           THEN /\ response'.status = 200
                /\ response'.body = <<RowOf(complainants, "complainant_id", request'.complainant_id)>>
           ELSE /\ response'.status = 404
                /\ response'.detail = <<"Complainant not found">>
                /\ response'.body = <<>>]_vars

\* C10 witness: a complainant is stored and an id that was never created
\* has been answered with 404.
C10_Witness ==
    /\ request.op = "get_complainant"
    /\ Len(complainants) >= 1
    /\ ~ComplainantExists(request.complainant_id)
    /\ response.status = 404

----------------------------------------------------------------------------
(* The list filters *)

\* s contains q as a substring, letters compared without regard to case.
Contains(s, q) ==
    \E i \in 0..(Len(s) - Len(q)) :
        \A k \in 1..Len(q) : Lower(s[i + k]) = Lower(q[k])

\* C11: list_complainants with a filter q succeeds and returns exactly the
\* complainants whose name contains q or whose email contains q, compared
\* without regard to case; when none does the sequence is empty.
C11_NameOrEmailContains ==
    (request.op = "list_complainants" /\ request.q # None) =>
        /\ response.status = 200
        /\ LET wanted == SelectSeq(complainants,
                                   LAMBDA row : \/ Contains(row.name, request.q[1])
                                                \/ Contains(row.email, request.q[1]))
           IN  response.body = [i \in 1..Len(wanted) |-> ComplainantSummary(wanted[i])]

\* C12: create_complainant with a valid payload answers 201, appends exactly
\* one complainant row with one add, one commit and one refresh, and echoes
\* every submitted field unchanged, with the identifier and the timestamps
\* the new row was given.
C12_CreateComplainant ==
    [][(Idle /\ request'.op = "create_complainant"
             /\ ValidComplainant(request'.payload)) =>
        LET payload == request'.payload
            row == complainants'[Len(complainants')]
        IN  /\ response'.status = 201
            /\ Len(complainants') = Len(complainants) + 1
            /\ \A i \in 1..Len(complainants) : complainants'[i] = complainants[i]
            /\ calls' = <<"add", "commit", "refresh">>
            /\ row.complainant_id \notin Ids(complainants, "complainant_id")
            /\ response'.body =
                  << [complainant_id |-> row.complainant_id,
                      name |-> payload.name, email |-> payload.email,
                      phone |-> payload.phone,
                      address_line1 |-> payload.address_line1,
                      address_line2 |-> payload.address_line2,
                      city |-> payload.city, postcode |-> payload.postcode,
                      created_at |-> row.created_at,
                      updated_at |-> row.updated_at] >>
            /\ UNCHANGED <<categories, patients, cases, complaints>>]_vars

C12_Witness ==
    /\ request.op = "create_complainant"
    /\ response.status = 201
    /\ response.body[1].phone = request.payload.phone
    /\ calls = <<"add", "commit", "refresh">>
    /\ Len(complainants) = 1

\* C13: get_complaint answers 404 when no complaint has the identifier, and
\* otherwise 200 with the stored complaint and, embedded, the complainant,
\* patient and case rows the complaint's own ids identify; what it returns
\* for a complaint is what create_complaint returned when the complaint was
\* created, and no later call changes it.
C13_GetComplaint ==
    [][/\ (Idle /\ request'.op = "get_complaint") =>
            LET id == request'.complaint_id
            IN  IF id \notin Ids(complaints, "complaint_id")
                THEN response'.status = 404 /\ response'.body = <<>>
                ELSE LET row == RowOf(complaints, "complaint_id", id)
                         out == response'.body[1]
                     IN  /\ response'.status = 200
                         /\ Len(response'.body) = 1
                         /\ [f \in DOMAIN row |-> out[f]] = row
                         /\ out.complainant = ComplainantSummary(
                                RowOf(complainants, "complainant_id", row.complainant_id))
                         /\ out.patient = PatientSummary(
                                RowOf(patients, "patient_id", row.patient_id))
                         /\ out.case = CaseSummary(
                                RowOf(cases, "case_id", row.case_id))
       /\ (IsCreateComplaint /\ response'.status = 201) =>
            \A id \in {<<"complaint", n>> : n \in 1..(Len(complaints) + 1)} :
                id = response'.body[1].complaint_id =>
                    get_complaint(id)'
                        = [reply |-> Reply(200, <<>>, response'.body),
                           calls |-> <<"get", "get", "get", "get">>]
       /\ tables' # tables =>
            \A id \in Ids(complaints, "complaint_id") :
                get_complaint(id)' = get_complaint(id)]_vars

\* C13 witness: a complaint that refers to the last case, not the first, has
\* been fetched.
C13_Witness ==
    /\ request.op = "get_complaint"
    /\ response.status = 200
    /\ Len(cases) >= 2
    /\ response.body[1].case.case_id = cases[Len(cases)].case_id
    /\ response.body[1].case.case_id # cases[1].case_id

\* C14: list_patients succeeds and returns, with a filter q, exactly the
\* patients whose name contains q, compared without regard to case and
\* looking at no other field, and without a filter every patient; when no
\* name contains q the sequence is empty.
C14_NameContains ==
    request.op = "list_patients" =>
        /\ response.status = 200
        /\ LET wanted == SelectSeq(patients,
                                   LAMBDA row : request.q # None =>
                                                    Contains(row.name, request.q[1]))
           IN  response.body = [i \in 1..Len(wanted) |-> PatientSummary(wanted[i])]

\* C15: list_cases succeeds and returns, with a patient_id filter, exactly
\* the cases whose patient_id is the given identifier, and without a filter
\* (absent or empty) every case; when the patient has no case or does not
\* exist the sequence is empty and the answer is still a success.
C15_CasesOfPatient ==
    request.op = "list_cases" =>
        LET given == request.patient_id # None /\ request.patient_id # Some(<<>>)
            wanted == {i \in 1..Len(cases) :
                          given => Str(cases[i].patient_id) = request.patient_id[1]}
        IN  /\ response.status = 200
            /\ Len(response.body) = Cardinality(wanted)
            /\ \A i \in wanted :
                   \E k \in 1..Len(response.body) :
                       /\ response.body[k].case_id = Str(cases[i].case_id)
                       /\ response.body[k].case_reference = cases[i].case_reference
                       /\ response.body[k].patient_id = Str(cases[i].patient_id)
            /\ (given /\ Uuid(request.patient_id[1]) \notin Ids(patients, "patient_id"))
                   => response.body = <<>>

\* C15 witness: the cases of the last patient have been listed, and they are
\* some of the cases, not all.
C15_Witness ==
    /\ request.op = "list_cases"
    /\ Len(patients) >= 2
    /\ request.patient_id = Some(Str(patients[Len(patients)].patient_id))
    /\ Len(response.body) >= 1
    /\ Len(response.body) < Len(cases)

----------------------------------------------------------------------------
(* Sessions *)

SessionPerRequest ==
    /\ \A r \in Requests :
          /\ inflight[r].pc = "received" => inflight[r].session = None
          /\ inflight[r].pc \in {"handling", "finished"} =>
                /\ inflight[r].session # None
                /\ sessions[inflight[r].session[1]] = "open"
          /\ inflight[r].pc = "completed" =>
                /\ inflight[r].session # None
                /\ sessions[inflight[r].session[1]] = "closed"
    /\ \A r1, r2 \in Requests :
          (r1 # r2 /\ inflight[r1].session # None) =>
              inflight[r1].session # inflight[r2].session
    /\ \A i \in 1..Len(sessions) :
          \E r \in Requests : inflight[r].session = Some(i)

\* C16: every request whose handler runs holds a session get_db made for it,
\* open while the handler runs; once the request has completed, whether the
\* handler returned or raised, its session is closed; no two requests hold
\* the same session, and every session made is held by a request; a request
\* whose handler is done does complete, with its session closed.
C16_SessionPerRequest ==
    /\ []SessionPerRequest
    /\ \A r \in Requests :
          (inflight[r].pc = "finished") ~>
              (inflight[r].pc = "completed"
               /\ sessions[inflight[r].session[1]] = "closed")

\* C16 witness: one request has completed after its handler raised, another
\* after its handler returned, while a third is still being handled.
C16_Witness ==
    \E r1, r2, r3 \in Requests :
        /\ inflight[r1].pc = "completed" /\ inflight[r1].outcome = "raised"
        /\ inflight[r2].pc = "completed" /\ inflight[r2].outcome = "returned"
        /\ inflight[r3].pc = "handling"
        /\ sessions[inflight[r1].session[1]] = "closed"
        /\ sessions[inflight[r3].session[1]] = "open"

----------------------------------------------------------------------------
(* Error responses *)

\* The error code an error response carries: the "error" entry of its JSON
\* content, if it has one.  An HTTPException is answered with its detail
\* alone.
ErrorCode(reply) ==
    IF reply.body # <<>> /\ "error" \in DOMAIN reply.body[1]
    THEN Some(reply.body[1].error) ELSE None

\* The message an error response carries: the "message" entry of its content
\* or the detail of the HTTPException.
ErrorMessage(reply) ==
    IF reply.body # <<>> /\ "message" \in DOMAIN reply.body[1]
    THEN Some(reply.body[1].message)
    ELSE IF reply.detail # <<>> THEN Some(reply.detail) ELSE None

\* C17: every error response of the handlers (the 400 of create_complaint,
\* the 404 of get_complainant and of get_complaint) carries both a
\* machine-readable error code and a human-readable message.
C17_ErrorCodeAndMessage ==
    (/\ request.op \in {"create_complaint", "get_complainant", "get_complaint"}
     /\ response.status \in {400, 404}) =>
        /\ ErrorCode(response) # None
        /\ ErrorMessage(response) # None

\* C18: when a store call fails inside a request handler, /patients-test
\* included, the client receives a 500-class response with a generic
\* message, never a success and never the text of the exception.
C18_FailureNotSwallowed ==
    "store_error" \in DOMAIN request =>
        /\ response.status \in 500..599
        /\ response.detail = <<"Internal Server Error">>
        /\ response.body = <<>>

\* C19: NotFoundError(resource, identifier, error_code) has status_code 404,
\* the error_code supplied, the message "<resource> not found (ID:
\* <identifier>)" and details {"resource": resource, "identifier":
\* identifier}.
C19_NotFoundError ==
    (/\ request.op = "raise"
     /\ request.call.class = "NotFoundError"
     /\ request.call.identifier \notin {None, Some("")}
     /\ request.call.error_code \notin {None, Some("")}
     /\ request.call.details = None) =>
        /\ request.exc.status_code = 404
        /\ request.exc.error_code = request.call.error_code[1]
        /\ request.exc.message = <<request.call.resource, " not found",
                                   " (ID: ", request.call.identifier[1], ")">>
        /\ request.exc.details = { <<"resource", request.call.resource>>,
                                   <<"identifier", request.call.identifier[1]>> }

\* C20: an ApplicationException an endpoint raises is answered with the
\* exception's status_code and the content {success: false, error:
\* error_code, message, details}; GET /error-test, which raises a
\* NotFoundError, is answered 404.
C20_HandlerResponse ==
    request.op \in {"raise", "error_test"} =>
        /\ response.status = request.exc.status_code
        /\ response.status = CASE request.call.class = "ValidationError" -> 400
                               [] request.call.class = "NotFoundError" -> 404
                               [] request.call.class = "BusinessLogicError" -> 422
                               [] OTHER -> request.call.status_code
        /\ response.body = << [success |-> FALSE,
                               error |-> request.exc.error_code,
                               message |-> request.exc.message,
                               details |-> request.exc.details] >>
        /\ ErrorCode(response) # None /\ ErrorMessage(response) # None
        /\ request.op = "error_test" => response.status = 404

\* C20 witness: GET /error-test has been answered 404 with the structured
\* content of the NotFoundError.
C20_Witness ==
    /\ request.op = "error_test"
    /\ response.status = 404
    /\ response.body[1].success = FALSE
    /\ response.body[1].error = "NotFoundError"
    /\ response.body[1].message = <<"Test Resource", " not found", " (ID: ", "123", ")">>

----------------------------------------------------------------------------
(* The store over time *)

\* Every row of the table is still there after the step, at its place and
\* with the values it had.
Kept(table, table_after) ==
    /\ Len(table_after) >= Len(table)
    /\ \A i \in 1..Len(table) : table_after[i] = table[i]

\* C21: the store is append-only: whatever a handler call or a seed run does,
\* every row of the five tables that existed before it exists after it with
\* the same identifier and the same field values; nothing is deleted or
\* rewritten.
C21_AppendOnly ==
    [][/\ Kept(categories, categories')
       /\ Kept(complainants, complainants')
       /\ Kept(patients, patients')
       /\ Kept(cases, cases')
       /\ Kept(complaints, complaints')]_vars

\* C21 witness: the seed script has run again over a store that holds
\* seeded rows, a complainant and a complaint.
C21_Witness ==
    /\ request.op = "seed_all_data"
    /\ Len(patients) >= 2
    /\ Len(complainants) >= 1
    /\ Len(complaints) >= 1
    /\ complaints[1].patient_id \in Ids(patients, "patient_id")

\* The view a script starts with when it runs after another has left d.
Rerun(d) == [d EXCEPT !.raised = FALSE, !.returned = <<>>]

\* The seeded tables of a view.
Seeded(d) == <<d.categories, d.patients, d.cases>>

\* C22: the seed scripts are idempotent: from any reachable store state,
\* running seed_all_data twice in a row, in the same year or across a change
\* of year, leaves the category, patient and case tables as running it once
\* does, and so does running seed_categories.seed_data twice.
C22_SeedIdempotent ==
    /\ \A year1, year2 \in {2025, 2026} :
          LET once == seed_all_data(SeedView, year1)
              twice == seed_all_data(Rerun(once), year2)
          IN  Seeded(twice) = Seeded(once)
    /\ LET once == seed_data(SeedView)
           twice == seed_data(Rerun(once))
       IN  Seeded(twice) = Seeded(once)

\* C22 witness: seed_categories.seed_data has run over a table that was
\* already seeded, and all three tables hold their seeded rows.
C22_Witness ==
    /\ request.op = "seed_categories"
    /\ response.detail = <<"rolled back">>
    /\ Len(categories) = Len(CATEGORIES)
    /\ Len(patients) = Len(PATIENTS)
    /\ cases # <<>>

\* C23: in every reachable store state no two categories have the same
\* (main_category, sub_category) pair and no two cases the same
\* case_reference; a seed run whose commit would break either constraint
\* fails and leaves all five tables as they were before the run.
C23_UniquenessKept ==
    /\ [](/\ \A i, j \in 1..Len(categories) :
                i # j => <<categories[i].main_category, categories[i].sub_category>>
                            # <<categories[j].main_category, categories[j].sub_category>>
          /\ \A i, j \in 1..Len(cases) :
                i # j => cases[i].case_reference # cases[j].case_reference)
    /\ [][(/\ request'.op \in {"seed_all_data", "seed_categories"}
           /\ request.op = "none"
           /\ response'.detail \in {<<"raised">>, <<"rolled back">>})
          => (/\ UNCHANGED <<tables, clock>>
              /\ \E i \in 1..Len(categories), k \in 1..Len(CATEGORIES) :
                    /\ categories[i].main_category = CATEGORIES[k].main_category
                    /\ categories[i].sub_category = CATEGORIES[k].sub_category)]_vars

\* C23 witness: a run of seed_categories.seed_data has failed on the
\* category constraint and been rolled back, with the seeded cases in place.
C23_Witness ==
    /\ request.op = "seed_categories"
    /\ response.detail = <<"rolled back">>
    /\ Len(categories) = Len(CATEGORIES)
    /\ Len(cases) = Len(PATIENTS) * Len(TemplatesUsed)
    /\ clock >= 3

\* The handlers that only read.
ReadHandlers ==
    {"get_complaint_categories", "get_complainant", "list_complainants",
     "get_complaint", "list_patients", "list_patients_test", "list_cases"}

\* C27: a call of a read handler, whatever its input and whether it answers,
\* rejects or fails on the store, leaves the five tables and the commit
\* clock as they were, so what later requests read is unchanged.
C27_ReadsLeaveStore ==
    [][(request.op = "none" /\ request'.op \in ReadHandlers) =>
          /\ UNCHANGED <<tables, clock>>
          /\ \A id \in Ids(complaints, "complaint_id") :
                get_complaint(id)' = get_complaint(id)
          /\ GroupCategories(categories') = GroupCategories(categories)]_vars

\* C27 witness: a stored complaint has been read, and stands as it was
\* created.
C27_Witness ==
    /\ request.op = "get_complaint"
    /\ response.status = 200
    /\ Len(complaints) >= 2
    /\ response.body[1].complaint_id = complaints[1].complaint_id
    /\ complaints[1].updated_at = complaints[1].created_at

\* How many times a call occurs among the calls of the request.
Count(call) == Cardinality({i \in 1..Len(calls) : calls[i] = call})

\* C26: no handler retries a store call: no request commits more than once
\* or makes a call after one has failed; a create_complaint call looks each
\* reference up at most once, in order, stops at the first that does not
\* resolve, and when it rejects has added and committed nothing.
C26_NoRetry ==
    /\ Count("commit") <= 1
    /\ Count("add") <= 1
    /\ Count("refresh") <= 1
    /\ "store_error" \in DOMAIN request =>
          Count("get") + Count("execute") + Count("commit") = 1
    /\ (request.op = "create_complaint" /\ "store_error" \notin DOMAIN request) =>
          LET c == request.complaint
              needed == IF ~CategoryExists(c.category_id) THEN 1
                        ELSE IF ~ComplainantExists(c.complainant_id) THEN 2
                        ELSE IF ~PatientExists(c.patient_id) THEN 3
                        ELSE 4
          IN  /\ Count("get") = needed
              /\ \A i \in 1..needed : calls[i] = "get"
              /\ response.status = 400 => Len(calls) = needed
              /\ response.status = 201 =>
                    /\ needed = 4
                    /\ SubSeq(calls, 5, Len(calls)) = <<"add", "commit", "refresh">>

\* C26 witness: a create_complaint call has been rejected at its second
\* lookup, the complainant, and made no third.
C26_Witness ==
    /\ request.op = "create_complaint"
    /\ "store_error" \notin DOMAIN request
    /\ response.status = 400
    /\ CategoryExists(request.complaint.category_id)
    /\ ~ComplainantExists(request.complaint.complainant_id)
    /\ PatientExists(request.complaint.patient_id)
    /\ calls = <<"get", "get">>

----------------------------------------------------------------------------
(* The logging middleware *)

\* The places of the log where the middleware reported how the request ended.
Endings == {i \in 1..Len(log) : log[i] \in {Outgoing, Failed}}

\* C25: for every request the middleware logs "Incoming request" before
\* anything beneath it runs, and afterwards exactly one of "Outgoing
\* response", when what it called produced a response, which it returns
\* unchanged, or "Request failed", when what it called raised, and then it
\* raises the same exception again.
C25_MiddlewareLogs ==
    request.op # "none" =>
        /\ log # <<>>
        /\ log[1] = Incoming
        /\ \A i \in 2..Len(log) : log[i] # Incoming
        /\ request.stage = "incoming" => log = <<Incoming>> /\ request.outcome = None
        /\ request.stage = "called" => Endings = {} /\ request.result = None
        /\ request.stage = "done" =>
              LET outcome == request.outcome[1]
              IN  /\ Endings = {Len(log)}
                  /\ SubSeq(log, 2, Len(log) - 1) = call_next(request.req).logged
                  /\ request.result = Some(outcome)
                  /\ outcome.kind = "response" =>
                        /\ log[Len(log)] = Outgoing
                        /\ response = outcome.reply
                  /\ outcome.kind = "raised" =>
                        /\ log[Len(log)] = Failed
                        /\ outcome.exc = request.req.store_error
                        /\ response = ServerError

\* A store failure has passed the middleware: it was logged as a failed
\* request and raised again, and the server answered it.
C25_Witness ==
    /\ request.op = "create_complaint"
    /\ request.stage = "done"
    /\ request.result = Some(Raised("connection refused"))
    /\ log = <<Incoming, Failed>>
    /\ response = ServerError

----------------------------------------------------------------------------
(* Concurrent requests *)

\* The requests that have arrived, and the create_complaint requests among
\* them that have committed their row.
Arrived == {r \in Concurrent : inflight[r].pc # "received"}
Succeeded ==
    {r \in Arrived : inflight[r].op = "create_complaint"
                     /\ inflight[r].pc = "done" /\ inflight[r].reply.status = 201}
Committing ==
    {r \in Arrived : inflight[r].op = "create_complaint"
                     /\ inflight[r].pc = "refresh_complaint"}

\* Every persisted complaint has its category, complainant, patient and
\* case, and its case belongs to its patient.
ComplaintsResolve ==
    \A i \in 1..Len(complaints) :
        /\ CategoryExists(complaints[i].category_id)
        /\ ComplainantExists(complaints[i].complainant_id)
        /\ PatientExists(complaints[i].patient_id)
        /\ CaseOfPatient(complaints[i].case_id, complaints[i].patient_id)

\* Every persisted complaint is the row one create_complaint request
\* committed, and no two requests committed the same row.
OneRequestEach ==
    \A i \in 1..Len(complaints) :
        \E r \in Succeeded \cup Committing :
            /\ inflight[r].new = Some(complaints[i])
            /\ \A s \in Succeeded \cup Committing :
                  inflight[s].new = inflight[r].new => s = r

\* A successful request returns the complaint it committed itself.
ReturnsOwnRow ==
    \A r \in Succeeded :
        inflight[r].reply.body[1].complaint_id = inflight[r].new[1].complaint_id

\* C24: under any interleaving of concurrently served requests, taken at
\* each store call, a step of one request changes the locals of no other
\* request; every persisted complaint has its category, complainant, patient
\* and case, and its case belongs to its patient; and the persisted
\* complaints are as many as the create_complaint requests that returned
\* success, counting a request between its commit and its return, each
\* complaint being the row one such request committed.
C24_ConcurrentRequests ==
    /\ [](ComplaintsResolve /\ OneRequestEach /\ ReturnsOwnRow
          /\ Len(complaints) = Cardinality(Succeeded) + Cardinality(Committing)
          /\ ((\A r \in Concurrent : inflight[r].pc = "done")
                => Len(complaints) = Cardinality(Succeeded)))
    /\ [][\A r, s \in Concurrent :
            (inflight'[r] # inflight[r] /\ s # r) => inflight'[s] = inflight[s]]_vars

\* C24 witness: two create_complaint requests ran at the same time and both
\* returned success: the second to commit had made its lookups before the
\* first committed, and each returned the row it committed itself.
C24_Witness ==
    /\ Len(complaints) = 2
    /\ inflight[1].pc = "done" /\ inflight[2].pc = "done"
    /\ inflight[1].op = "create_complaint" /\ inflight[2].op = "create_complaint"
    /\ inflight[1].reply.status = 201 /\ inflight[2].reply.status = 201
    /\ inflight[1].reply.body[1].complaint_id = complaints[2].complaint_id
    /\ inflight[2].reply.body[1].complaint_id = complaints[1].complaint_id

====
